---------------------------- MODULE Spec2Model ----------------------------
(***************************************************************************)
(* A model of cli-explorer's filesystem inspection code                    *)
(* (src/src/main/files.cpp) and of its configuration bootstrap             *)
(* (src/src/main/main.cpp).                                                *)
(*                                                                         *)
(* Strings are sequences of one-character strings, so that paths can be    *)
(* split into components the way std::experimental::filesystem::path does. *)
(* Human-readable descriptions are sequences of words.                     *)
(*                                                                         *)
(* The library the code is written against is the Filesystem TS            *)
(* (<experimental/filesystem>), whose path::parent_path() of the root      *)
(* directory is the empty path and whose path iteration yields "." for a   *)
(* trailing separator.  Paths with a root-name ("//host") are left out.    *)
(***************************************************************************)
EXTENDS Naturals, Sequences, FiniteSets

VARIABLES
    pc,                  \* position of the operation being run
    ret,                 \* how the operation ended and what it returned
    path,                \* the path argument of the operation
    cwd,                 \* fs::current_path()
    HOME,                \* getenv("HOME")
    pw_dir,              \* getpwuid(getuid())->pw_dir
    files,               \* what the filesystem holds, path by path
    default_file,        \* the file at /etc/cliex/default.cfg
    user_file,           \* the file at ~/.config/cliex/user.cfg
    entry,               \* what the filesystem holds at path
    type_config,         \* the type_config argument of get_file_info
    local,               \* the local variables of the operation being run
    env_steps,           \* changes other processes made to the filesystem
    show_hidden_files,   \* argument of get_dir_contents
    include_current_dir  \* argument of get_dir_contents

envVars  == <<cwd, HOME, pw_dir, files>>
cfgVars  == <<default_file, user_file>>
fsVars   == <<entry, type_config, local, env_steps>>
listVars == <<show_hidden_files, include_current_dir>>
vars == <<pc, ret, path, envVars, cfgVars, fsVars, listVars>>

\* A variable the specification at hand does not use.
Unused == <<"-">>
\* The value of ret while the operation has not ended.
Running == [kind |-> "running"]

NoConfigFiles == default_file = Unused /\ user_file = Unused
NoFilesystem ==
    entry = Unused /\ type_config = Unused /\ local = Unused /\ env_steps = 0
NoListing == show_hidden_files = Unused /\ include_current_dir = Unused
NoTree == files = Unused

-----------------------------------------------------------------------------
(* Bounds                                                                  *)

MaxPathLen == 5
MaxHomeLen == 2
MaxLines == 2
MaxChildren == 2
MaxEnvSteps == 1
MaxListed == 3

\* the characters paths are drawn from
PathChars == {"/", ".", "a"}
HomeChars == {"/", "h"}

-----------------------------------------------------------------------------
(* Strings                                                                 *)

SeqsUpTo(S, n) == UNION {[1..k -> S] : k \in 0..n}

Sep == "/"
Dot == <<".">>
DotDot == <<".", ".">>
RootDir == <<"/">>
EmptyPath == <<>>

-----------------------------------------------------------------------------
(* fs::path (Filesystem TS, POSIX)                                         *)

\* a path with a root-name: two leading separators, not three
HasRootName(p) ==
    /\ Len(p) >= 2
    /\ p[1] = Sep
    /\ p[2] = Sep
    /\ (Len(p) = 2 \/ p[3] # Sep)

\* path::is_absolute() on POSIX: the path has a root directory
IsAbsolute(p) == Len(p) >= 1 /\ p[1] = Sep

RECURSIVE SplitFrom(_, _, _)
\* the maximal runs of non-separator characters of s[i..], after the run cur
SplitFrom(s, i, cur) ==
    IF i > Len(s)
    THEN IF cur = <<>> THEN <<>> ELSE <<cur>>
    ELSE IF s[i] = Sep
         THEN (IF cur = <<>> THEN <<>> ELSE <<cur>>) \o SplitFrom(s, i + 1, <<>>)
         ELSE SplitFrom(s, i + 1, Append(cur, s[i]))

\* path::begin()..end(): the root directory, the filenames, and "." for a
\* trailing separator
Components(p) ==
    LET names == SplitFrom(p, 1, <<>>)
        root  == IF IsAbsolute(p) THEN <<RootDir>> ELSE <<>>
        trail == IF names # <<>> /\ p[Len(p)] = Sep THEN <<Dot>> ELSE <<>>
    IN  root \o names \o trail

\* path::operator/=
PathAppend(a, b) ==
    IF a # <<>> /\ a[Len(a)] # Sep /\ b # <<>> /\ b[1] # Sep
    THEN a \o <<Sep>> \o b
    ELSE a \o b

RECURSIVE PathJoin(_, _)
\* acc /= c for each c of cs, in order
PathJoin(acc, cs) ==
    IF cs = <<>> THEN acc ELSE PathJoin(PathAppend(acc, Head(cs)), Tail(cs))

\* path::parent_path(): empty for a path of fewer than two components,
\* the root directory included
ParentPath(p) ==
    LET cs == Components(p)
    IN  IF Len(cs) < 2 THEN EmptyPath
        ELSE PathJoin(EmptyPath, SubSeq(cs, 1, Len(cs) - 1))

\* fs::absolute(p) against the current directory
Absolute(p, base) == IF IsAbsolute(p) THEN p ELSE PathAppend(base, p)

\* cliex::get_root_path()
get_root_path(base) == Head(Components(Absolute(base, base)))

-----------------------------------------------------------------------------
(* cliex::resolve                                                          *)

RECURSIVE ResolveLoop(_, _)
ResolveLoop(newpath, cs) ==
    IF cs = <<>> THEN newpath
    ELSE LET component == Head(cs)
         IN  IF component = Dot THEN ResolveLoop(newpath, Tail(cs))
             ELSE IF component = DotDot
                  THEN ResolveLoop(ParentPath(newpath), Tail(cs))
                  ELSE IF component # <<>>
                       THEN ResolveLoop(PathAppend(newpath, component), Tail(cs))
                       ELSE ResolveLoop(newpath, Tail(cs))

resolve(p, base) == ResolveLoop(EmptyPath, Components(Absolute(p, base)))

-----------------------------------------------------------------------------
(* cliex::get_home_dir                                                     *)

\* getenv() of an unset variable, getpwuid() of a user without an entry
Null == <<"NULL">>

\* std::string(nullptr) and a null dereference are undefined: the build
\* either throws std::logic_error out of a noexcept function or faults
CrashOutcomes == {"terminate", "segfault"}

get_home_dir_returns(home, pw, base) ==
    IF home # <<>> THEN Absolute(home, base)
    ELSE IF pw # <<>> THEN Absolute(pw, base)
    ELSE Absolute(base, base)

\* the outcomes of get_home_dir in an environment
get_home_dir(home, pw, base) ==
    IF home = Null
    THEN {[kind |-> k] : k \in CrashOutcomes}
    ELSE IF home = <<>> /\ pw = Null
         THEN {[kind |-> "segfault"]}
         ELSE {[kind |-> "return", value |-> get_home_dir_returns(home, pw, base)]}

-----------------------------------------------------------------------------
(* Ordinal string comparison (std::string::operator<)                      *)

CharCode(c) ==
    CASE c = "!" -> 33
      [] c = "-" -> 45
      [] c = "." -> 46
      [] c = "/" -> 47
      [] c = "a" -> 97
      [] c = "b" -> 98
      [] c = "h" -> 104
      [] c = "m" -> 109
      [] c = "s" -> 115
      [] c = "x" -> 120

RECURSIVE StrLess(_, _)
StrLess(a, b) ==
    IF a = <<>> THEN b # <<>>
    ELSE IF b = <<>> THEN FALSE
    ELSE IF CharCode(Head(a)) < CharCode(Head(b)) THEN TRUE
    ELSE IF CharCode(Head(a)) > CharCode(Head(b)) THEN FALSE
    ELSE StrLess(Tail(a), Tail(b))

-----------------------------------------------------------------------------
(* cliex::type_config.  type_config.cpp is not among the sources; its      *)
(* operations are modelled from the specification's section 4.2.           *)

\* a default-constructed type_config: no rules
EmptyConfig == [k \in {} |-> <<>>]

\* the lines of a configuration file
RuleLine(k, d) == [kind |-> "rule", key |-> k, desc |-> d]
CommentLine(t) == [kind |-> "comment", key |-> <<>>, desc |-> t]
BlankLine == [kind |-> "blank", key |-> <<>>, desc |-> <<>>]

RECURSIVE ReadLines(_, _)
\* the rules of the lines, in order; a later rule for a key replaces an
\* earlier one; comments and blank lines are skipped
ReadLines(cfg, lines) ==
    IF lines = <<>> THEN cfg
    ELSE LET l == Head(lines)
         IN  IF l.kind = "rule"
             THEN ReadLines([k \in DOMAIN cfg \cup {l.key} |->
                                IF k = l.key THEN l.desc ELSE cfg[k]],
                            Tail(lines))
             ELSE ReadLines(cfg, Tail(lines))

\* type_config::read_from
read_from(lines) == ReadLines(EmptyConfig, lines)

\* type_config::merge_with: the rules of other that self has no rule for
\* are added; the rules of self stay
merge_with(self, other) ==
    [k \in DOMAIN self \cup DOMAIN other |->
        IF k \in DOMAIN self THEN self[k] ELSE other[k]]

\* type_config::operator!=: the two rule sets differ
config_differs(a, b) == a # b

\* a key that starts with "." is an extension rule
IsExtensionKey(k) == k # <<>> /\ Head(k) = "."

RECURSIVE SortedKeys(_)
SortedKeys(S) ==
    IF S = {} THEN <<>>
    ELSE LET m == CHOOSE x \in S : \A y \in S : x = y \/ StrLess(x, y)
         IN  <<m>> \o SortedKeys(S \ {m})

\* operator<<(ostream, type_config): one line per rule, the filename rules
\* before the extension rules
Serialize(cfg) ==
    LET ks == SortedKeys({k \in DOMAIN cfg : ~IsExtensionKey(k)})
              \o SortedKeys({k \in DOMAIN cfg : IsExtensionKey(k)})
    IN  [i \in 1..Len(ks) |-> RuleLine(ks[i], cfg[ks[i]])]

-----------------------------------------------------------------------------
(* setup_type_config                                                       *)

\* the text the bootstrap writes before the rules
HeaderLines ==
    << CommentLine(<<"Configuration", "file", "for", "cliex.">>),
       CommentLine(<<"It", "is", "used", "by", "the", "file", "explorer", "to",
                     "detect", "file", "types", "correctly.">>),
       BlankLine >>

AbsentFile == [kind |-> "absent", lines |-> <<>>, writable |-> FALSE]

\* fs::exists(p) && fs::is_regular_file(p)
Available(file) == file.kind = "regular"

\* the configuration loaded from a file, empty when it is not available
LoadedConfig(file) == IF Available(file) THEN read_from(file.lines) ELSE EmptyConfig

\* std::ofstream(path) << text: a file that cannot be opened stays as it is
WriteFile(file, lines) ==
    IF file.writable THEN [file EXCEPT !.lines = lines] ELSE file

\* mutant of setup_type_config: the default is merged over the user's rules
setup_type_config_default_wins(dfile, ufile) ==
    LET default_type_config == LoadedConfig(dfile)
        user_type_config    == LoadedConfig(ufile)
    IN  IF config_differs(default_type_config, user_type_config)
        THEN LET merged == merge_with(default_type_config, user_type_config)
             IN  [config    |-> merged,
                  user_file |-> IF Available(ufile)
                                THEN WriteFile(ufile, HeaderLines \o Serialize(merged))
                                ELSE ufile]
        ELSE [config |-> user_type_config, user_file |-> ufile]

\* mutant of setup_type_config: the user file is written whether or not it
\* existed
setup_type_config_always_writes(dfile, ufile) ==
    LET default_type_config == LoadedConfig(dfile)
        user_type_config    == LoadedConfig(ufile)
    IN  IF config_differs(default_type_config, user_type_config)
        THEN LET merged == merge_with(user_type_config, default_type_config)
             IN  [config    |-> merged,
                  user_file |-> [kind |-> "regular", writable |-> TRUE,
                                 lines |-> HeaderLines \o Serialize(merged)]]
        ELSE [config |-> user_type_config, user_file |-> ufile]

\* setup_type_config, once both paths are known: the returned configuration
\* and the user file it leaves
setup_type_config(dfile, ufile) ==
    LET default_type_config == LoadedConfig(dfile)
        user_type_config    == LoadedConfig(ufile)
    IN  IF config_differs(default_type_config, user_type_config)
        THEN LET merged == merge_with(user_type_config, default_type_config)
             IN  [config    |-> merged,
                  user_file |-> IF Available(ufile)
                                THEN WriteFile(ufile, HeaderLines \o Serialize(merged))
                                ELSE ufile]
        ELSE [config |-> user_type_config, user_file |-> ufile]

-----------------------------------------------------------------------------
(* The filesystem entry at a path, as lstat/stat/access/readdir report it. *)
(* Its ftype is an fs::file_type that symlink_status can report, or        *)
(* "error" for an lstat that fails for another reason than a missing file. *)

ExecBits == {"owner_exec", "group_exec", "others_exec"}
PermBits == ExecBits \cup {"owner_read"}

\* what a directory entry is: its own type, and for a symlink what it leads to
ChildKinds == {"dir", "file", "link_to_dir", "link_to_file", "link_dangling"}

NoEntry ==
    [ftype |-> "not_found", perms |-> {}, size |-> 0, target |-> <<>>,
     target_type |-> "not_found", children |-> <<>>, racc |-> FALSE, xacc |-> FALSE]

\* the entry a path names: the modelled entry at its own path, nothing elsewhere
Lookup(q, p, e) == IF q = p THEN e ELSE NoEntry

\* lstat(2) succeeds
LstatOk(e) == e.ftype \notin {"not_found", "error"}

\* the type stat(2) reports, following a symlink
FollowedType(e) == IF e.ftype = "symlink" THEN e.target_type ELSE e.ftype

\* fs::is_directory(child) on a directory entry: status() follows symlinks
ChildIsDirectory(c) == c.kind \in {"dir", "link_to_dir"}

\* opendir(3) and readdir(3) need read permission; stat(2) of a child needs
\* search permission
CanOpenDir(e) == e.ftype = "directory" /\ e.racc
CanStatChildren(e) == e.xacc

-----------------------------------------------------------------------------
(* fs::path decomposition                                                  *)

\* path::filename(): the last component
Filename(p) ==
    LET cs == Components(p) IN IF cs = <<>> THEN <<>> ELSE cs[Len(cs)]

\* path::extension(): from the rightmost period of the filename, unless the
\* filename is "." or ".."
Extension(p) ==
    LET f == Filename(p)
        dots == {i \in 1..Len(f) : f[i] = "."}
    IN  IF dots = {} \/ f = Dot \/ f = DotDot THEN <<>>
        ELSE LET last == CHOOSE i \in dots : \A j \in dots : j <= i
             IN  SubSeq(f, last, Len(f))

-----------------------------------------------------------------------------
(* cliex::file_info.  files.hpp is not among the sources: the alternatives *)
(* of extra_info and is_exec are modelled from the specification.          *)

\* extra_info = {}: no payload
NoExtra == [tag |-> "none"]

\* cliex::is_exec: any of the three execute bits
is_exec(perms) == perms \cap ExecBits # {}

file_info(name, type_desc, type, perms, extra_info) ==
    [name |-> name, type_desc |-> type_desc, type |-> type, perms |-> perms,
     extra_info |-> extra_info]

-----------------------------------------------------------------------------
(* cliex::get_file_info                                                    *)

\* mutant of symlink_status: fs::status, which follows a symlink
status_followed(e) ==
    [e EXCEPT !.ftype = FollowedType(e)]

\* fs::symlink_status(path): the entry's own type and permissions
symlink_status(e) == e

\* the switch over the types that are neither symlink, directory nor regular
special_type_desc(type) ==
    CASE type = "block"     -> <<"Block", "Device">>
      [] type = "character" -> <<"Character", "Device">>
      [] type = "fifo"      -> <<"Named", "IPC", "Pipe">>
      [] type = "socket"    -> <<"Named", "IPC", "Socket">>
      [] type = "none"      -> <<"None", "[ERROR", "STATE]">>
      [] type = "not_found" -> <<"Not", "Found", "[ERROR", "STATE]">>
      [] type = "unknown"   -> <<"Unknown", "[ERROR", "STATE]">>
      [] OTHER              -> <<"[ERROR", "STATE]">>

\* mutant of regular_type_desc: the extension rule is tried first
regular_type_desc_extension_first(p, perms, types) ==
    LET executable == is_exec(perms)
        found_f == Filename(p) \in DOMAIN types
        found_e == Extension(p) \in DOMAIN types
    IN  IF found_f \/ found_e
        THEN (IF found_e THEN types[Extension(p)] ELSE types[Filename(p)])
             \o (IF executable THEN <<"(Executable)">> ELSE <<>>)
        ELSE IF executable THEN <<"Executable">>
        ELSE <<"Unknown", "Regular", "File">>

\* the description of a regular file
regular_type_desc(p, perms, types) ==
    LET executable == is_exec(perms)
        found_f == Filename(p) \in DOMAIN types
        found_e == Extension(p) \in DOMAIN types
    IN  IF found_f \/ found_e
        THEN (IF found_f THEN types[Filename(p)] ELSE types[Extension(p)])
             \o (IF executable THEN <<"(Executable)">> ELSE <<>>)
        ELSE IF executable THEN <<"Executable">>
        ELSE <<"Unknown", "Regular", "File">>

\* the loop over the directory's entries
subdirsc(children) == Cardinality({i \in DOMAIN children : ChildIsDirectory(children[i])})
filesc(children) == Cardinality({i \in DOMAIN children : ~ChildIsDirectory(children[i])})

\* fs::is_directory(resolved_path) throws out of the noexcept has_access when
\* stat fails for another reason than a missing file
has_access_terminates(p, base, e) ==
    Lookup(resolve(p, base), p, e).ftype = "error"

\* cliex::has_access: access(2) on the resolved path, with X_OK for a directory
has_access(p, base, e) ==
    LET resolved == Lookup(resolve(p, base), p, e)
    IN  IF ~LstatOk(resolved) THEN FALSE
        ELSE IF FollowedType(resolved) = "directory"
             THEN resolved.racc /\ resolved.xacc
             ELSE resolved.racc

Return(info) == [kind |-> "return", value |-> info]
Throw == [kind |-> "throw"]
Exit == [kind |-> "exit"]
Terminate == [kind |-> "terminate"]

\* fs::file_status stat = fs::symlink_status(path), which throws when lstat
\* fails for another reason than a missing file
SymlinkStatus ==
    /\ pc = "symlink_status"
    /\ LET stat == symlink_status(entry)
       IN  IF stat.ftype = "error"
           THEN /\ ret' = Throw
                /\ pc' = "done"
                /\ local' = local
           ELSE /\ local' = [local EXCEPT !.type = stat.ftype, !.perms = stat.perms]
                /\ pc' = "symlink_last_write_time"
                /\ ret' = ret
    /\ UNCHANGED <<path, envVars, cfgVars, entry, type_config, env_steps, listVars>>

\* symlink_last_write_time(path), which exits when lstat fails; then the
\* branch on the type, and the return for a special file
SymlinkLastWriteTime ==
    /\ pc = "symlink_last_write_time"
    /\ IF ~LstatOk(entry)
       THEN ret' = Exit /\ pc' = "done"
       ELSE CASE local.type = "symlink"   -> ret' = ret /\ pc' = "read_symlink"
              [] local.type = "directory" -> ret' = ret /\ pc' = "has_access"
              [] local.type = "regular"   -> ret' = ret /\ pc' = "file_size"
              [] OTHER ->
                   /\ ret' = Return(file_info(Filename(path),
                                              special_type_desc(local.type),
                                              local.type, local.perms, NoExtra))
                   /\ pc' = "done"
    /\ UNCHANGED <<path, envVars, cfgVars, fsVars, listVars>>

\* fs::read_symlink(path) and the return for a symlink
ReadSymlink ==
    /\ pc = "read_symlink"
    /\ IF entry.ftype = "symlink"
       THEN ret' = Return(file_info(Filename(path), <<"Symlink">>, local.type,
                                    local.perms,
                                    [tag |-> "symlink_info", target |-> entry.target]))
       ELSE ret' = Throw
    /\ pc' = "done"
    /\ UNCHANGED <<path, envVars, cfgVars, fsVars, listVars>>

\* bool has_access = cliex::has_access(path), and the return for a directory
\* that may not be enumerated
HasAccess ==
    /\ pc = "has_access"
    /\ IF has_access_terminates(path, cwd, entry)
       THEN ret' = Terminate /\ pc' = "done" /\ local' = local
       ELSE IF has_access(path, cwd, entry)
            THEN /\ local' = [local EXCEPT !.has_access = TRUE]
                 /\ pc' = "directory_iterator"
                 /\ ret' = ret
            ELSE /\ ret' = Return(file_info(Filename(path), <<"Directory">>,
                                            local.type, local.perms,
                                            [tag |-> "dir_info", has_access |-> FALSE,
                                             subdirsc |-> 0, filesc |-> 0]))
                 /\ pc' = "done"
                 /\ local' = local
    /\ UNCHANGED <<path, envVars, cfgVars, entry, type_config, env_steps, listVars>>

\* the loop over fs::directory_iterator(path), which throws when the
\* directory cannot be opened or an entry cannot be examined, and the return
\* for an enumerated directory
DirectoryIterator ==
    /\ pc = "directory_iterator"
    /\ IF CanOpenDir(entry) /\ (entry.children = <<>> \/ CanStatChildren(entry))
       THEN ret' = Return(file_info(Filename(path), <<"Directory">>, local.type,
                                    local.perms,
                                    [tag |-> "dir_info", has_access |-> local.has_access,
                                     subdirsc |-> subdirsc(entry.children),
                                     filesc |-> filesc(entry.children)]))
       ELSE ret' = Throw
    /\ pc' = "done"
    /\ UNCHANGED <<path, envVars, cfgVars, fsVars, listVars>>

\* uintmax_t size = file_size(path), which throws unless the path is a
\* regular file; then the lookup of the description and the return
FileSize ==
    /\ pc = "file_size"
    /\ IF FollowedType(entry) = "regular"
       THEN ret' = Return(file_info(Filename(path),
                                    regular_type_desc(path, local.perms, type_config),
                                    local.type, local.perms,
                                    [tag |-> "regular_file_info", size |-> entry.size]))
       ELSE ret' = Throw
    /\ pc' = "done"
    /\ UNCHANGED <<path, envVars, cfgVars, fsVars, listVars>>

-----------------------------------------------------------------------------
(* cliex::get_dir_contents                                                 *)

\* std::string::substr(pos, n)
Substr(s, pos, n) ==
    SubSeq(s, pos + 1, IF pos + n <= Len(s) THEN pos + n ELSE Len(s))

RECURSIVE InsertSorted(_, _)
InsertSorted(x, sorted) ==
    IF sorted = <<>> THEN <<x>>
    ELSE IF StrLess(x, Head(sorted)) THEN <<x>> \o sorted
    ELSE <<Head(sorted)>> \o InsertSorted(x, Tail(sorted))

RECURSIVE Sort(_)
\* std::sort(contents.begin(), contents.end())
Sort(contents) ==
    IF contents = <<>> THEN <<>>
    ELSE InsertSorted(Head(contents), Sort(Tail(contents)))

\* the filenames the loop over fs::directory_iterator(dir) keeps, in the
\* order the directory yields them
ListedNames(children, show_hidden) ==
    LET filenames == [i \in DOMAIN children |-> children[i].name]
        Keep(filename) == Substr(filename, 0, 1) # Dot \/ show_hidden
    IN  SelectSeq(filenames, Keep)

\* mutant of get_dir_contents: "." and ".." are added before the sort
get_dir_contents_sentinels_sorted(dir, e, show_hidden, include_current, base) ==
    IF e.ftype = "error" THEN [kind |-> "throw"]
    ELSE IF FollowedType(e) # "directory" THEN [kind |-> "return", value |-> <<>>]
    ELSE IF ~e.racc THEN [kind |-> "throw"]
    ELSE LET contents == ListedNames(e.children, show_hidden)
             with_parent == IF dir # get_root_path(base)
                            THEN <<DotDot>> \o contents ELSE contents
             with_current == IF include_current
                             THEN <<Dot>> \o with_parent ELSE with_parent
         IN  [kind |-> "return", value |-> Sort(with_current)]

\* cliex::get_dir_contents: nothing for what is no directory, an exception
\* from is_directory or directory_iterator, or the sorted names behind the
\* sentinels
get_dir_contents(dir, e, show_hidden, include_current, base) ==
    IF e.ftype = "error" THEN [kind |-> "throw"]
    ELSE IF FollowedType(e) # "directory" THEN [kind |-> "return", value |-> <<>>]
    ELSE IF ~e.racc THEN [kind |-> "throw"]
    ELSE LET contents == Sort(ListedNames(e.children, show_hidden))
             with_parent == IF dir # get_root_path(base)
                            THEN <<DotDot>> \o contents ELSE contents
             with_current == IF include_current
                             THEN <<Dot>> \o with_parent ELSE with_parent
         IN  [kind |-> "return", value |-> with_current]

-----------------------------------------------------------------------------
(* Other processes changing the filesystem while get_file_info runs        *)

\* unlink(2) or rmdir(2) of the entry
EnvRemove ==
    /\ pc \notin {"done"}
    /\ env_steps < MaxEnvSteps
    /\ LstatOk(entry)
    /\ entry' = NoEntry
    /\ env_steps' = env_steps + 1
    /\ UNCHANGED <<pc, ret, path, envVars, cfgVars, type_config, local, listVars>>

\* creat(2) of a regular file where there was nothing
EnvCreate ==
    /\ pc \notin {"done"}
    /\ env_steps < MaxEnvSteps
    /\ entry.ftype = "not_found"
    /\ entry' = [NoEntry EXCEPT !.ftype = "regular", !.racc = TRUE]
    /\ env_steps' = env_steps + 1
    /\ UNCHANGED <<pc, ret, path, envVars, cfgVars, type_config, local, listVars>>

\* chmod(2) of a directory
EnvChmod ==
    /\ pc \notin {"done"}
    /\ env_steps < MaxEnvSteps
    /\ entry.ftype = "directory"
    /\ \E r, x \in BOOLEAN :
          /\ <<r, x>> # <<entry.racc, entry.xacc>>
          /\ entry' = [entry EXCEPT !.racc = r, !.xacc = x]
    /\ env_steps' = env_steps + 1
    /\ UNCHANGED <<pc, ret, path, envVars, cfgVars, type_config, local, listVars>>

-----------------------------------------------------------------------------
(* Inputs                                                                  *)

Cwds == {<<"/">>, <<"/", "w">>}

PathStrings == {p \in SeqsUpTo(PathChars, MaxPathLen) : ~HasRootName(p)}
HomeStrings == {p \in SeqsUpTo(HomeChars, MaxHomeLen) : ~HasRootName(p)}

-----------------------------------------------------------------------------
(* resolve applied to every bounded path                                   *)

InitResolve ==
    /\ pc = "resolve"
    /\ ret = Running
    /\ path \in PathStrings
    /\ cwd \in Cwds
    /\ HOME = Unused
    /\ pw_dir = Unused
    /\ NoConfigFiles
    /\ NoFilesystem
    /\ NoListing
    /\ NoTree

Resolve ==
    /\ pc = "resolve"
    /\ ret' = [kind |-> "return", value |-> resolve(path, cwd)]
    /\ pc' = "done"
    /\ UNCHANGED <<path, envVars, cfgVars, fsVars, listVars>>

SpecResolve == InitResolve /\ [][Resolve]_vars

-----------------------------------------------------------------------------
(* get_home_dir in every bounded environment                               *)

InitHome ==
    /\ pc = "get_home_dir"
    /\ ret = Running
    /\ path = Unused
    /\ cwd \in Cwds
    /\ HOME \in {Null} \cup HomeStrings
    /\ pw_dir \in {Null} \cup HomeStrings
    /\ NoConfigFiles
    /\ NoFilesystem
    /\ NoListing
    /\ NoTree

GetHomeDir ==
    /\ pc = "get_home_dir"
    /\ \E o \in get_home_dir(HOME, pw_dir, cwd) : ret' = o
    /\ pc' = "done"
    /\ UNCHANGED <<path, envVars, cfgVars, fsVars, listVars>>

SpecHome == InitHome /\ [][GetHomeDir]_vars

-----------------------------------------------------------------------------
(* C1                                                                      *)

RECURSIVE SegmentsFrom(_, _, _)
\* the segments of s[i..] between separators, empty ones included
SegmentsFrom(s, i, cur) ==
    IF i > Len(s) THEN <<cur>>
    ELSE IF s[i] = Sep
         THEN <<cur>> \o SegmentsFrom(s, i + 1, <<>>)
         ELSE SegmentsFrom(s, i + 1, Append(cur, s[i]))

RECURSIVE Retained(_, _)
\* the segments kept after processing segs left to right
Retained(kept, segs) ==
    IF segs = <<>> THEN kept
    ELSE LET s == Head(segs)
         IN  IF s = Dot \/ s = <<>> THEN Retained(kept, Tail(segs))
             ELSE IF s = DotDot
                  THEN Retained(IF kept = <<>> THEN kept
                                ELSE SubSeq(kept, 1, Len(kept) - 1), Tail(segs))
                  ELSE Retained(Append(kept, s), Tail(segs))

RECURSIVE Joined(_)
Joined(segs) ==
    IF segs = <<>> THEN <<>>
    ELSE IF Len(segs) = 1 THEN Head(segs)
    ELSE Head(segs) \o <<Sep>> \o Joined(Tail(segs))

\* the root followed by the retained segments of an absolute path
LexicalNormalForm(abs) == RootDir \o Joined(Retained(<<>>, SegmentsFrom(abs, 1, <<>>)))

\* C1: resolve(path) is the lexical normal form of the absolute path: "."
\* and empty segments are dropped, ".." removes the previously retained
\* segment and is a no-op at the root, so the result is always absolute
\* (resolve("/..") = "/", resolve("/../s") = "/s").
C1_ResolveIsLexicalRootFixed ==
    pc = "done" =>
        /\ IsAbsolute(ret.value)
        /\ ret.value = LexicalNormalForm(Absolute(path, cwd))

\* the same statement for the paths that never apply ".." at the root
C1_NeverAboveRoot(abs) ==
    LET RECURSIVE Ok(_, _)
        Ok(depth, segs) ==
            IF segs = <<>> THEN TRUE
            ELSE LET s == Head(segs)
                 IN  IF s = Dot \/ s = <<>> THEN Ok(depth, Tail(segs))
                     ELSE IF s = DotDot THEN depth > 0 /\ Ok(depth - 1, Tail(segs))
                     ELSE Ok(depth + 1, Tail(segs))
    IN  Ok(0, SegmentsFrom(abs, 1, <<>>))

C1_ResolveBelowRoot ==
    (pc = "done" /\ C1_NeverAboveRoot(Absolute(path, cwd))) =>
        ret.value = LexicalNormalForm(Absolute(path, cwd))

-----------------------------------------------------------------------------
(* C2                                                                      *)

\* C2: get_home_dir never fails: whether HOME is unset, empty or non-empty,
\* and the user-database directory empty or non-empty, it returns an
\* absolute path: HOME if non-empty, else the user-database directory if
\* non-empty, else the current working directory.
C2_HomeDirNeverFails ==
    (pc = "done" /\ pw_dir # Null) =>
        /\ ret.kind = "return"
        /\ IsAbsolute(ret.value)
        /\ ret.value = IF HOME # Null /\ HOME # <<>> THEN Absolute(HOME, cwd)
                       ELSE IF pw_dir # <<>> THEN Absolute(pw_dir, cwd)
                       ELSE cwd

\* the same statement with HOME set
C2_HomeDirWithHomeSet ==
    (pc = "done" /\ pw_dir # Null /\ HOME # Null) =>
        /\ ret.kind = "return"
        /\ IsAbsolute(ret.value)
        /\ ret.value = IF HOME # <<>> THEN Absolute(HOME, cwd)
                       ELSE IF pw_dir # <<>> THEN Absolute(pw_dir, cwd)
                       ELSE cwd

-----------------------------------------------------------------------------
(* setup_type_config on every bounded pair of configuration files          *)

CfgKeys == {<<"m">>, <<".", "s">>}
Descs == {<<"Shell", "Script">>, <<"Build", "File">>}

RuleLines == {RuleLine(k, d) : k \in CfgKeys, d \in Descs}
UserLines == RuleLines \cup {CommentLine(<<"note">>)}

DefaultFiles ==
    {AbsentFile} \cup
    {[kind |-> "regular", lines |-> l, writable |-> FALSE] :
        l \in SeqsUpTo(RuleLines, MaxLines)}

UserFiles ==
    {AbsentFile, [kind |-> "directory", lines |-> <<>>, writable |-> FALSE]} \cup
    {[kind |-> "regular", lines |-> l, writable |-> w] :
        l \in SeqsUpTo(UserLines, MaxLines), w \in BOOLEAN}

InitConfig ==
    /\ pc = "setup_type_config"
    /\ ret = Running
    /\ path = Unused
    /\ cwd = RootDir
    /\ HOME \in {Null, <<"/", "h">>}
    /\ pw_dir = <<"/", "h">>
    /\ default_file \in DefaultFiles
    /\ user_file \in UserFiles
    /\ NoFilesystem
    /\ NoListing
    /\ NoTree

SetupTypeConfig ==
    /\ pc = "setup_type_config"
    /\ \E home \in get_home_dir(HOME, pw_dir, cwd) :
          IF home.kind = "return"
          THEN LET r == setup_type_config(default_file, user_file)
               IN  /\ ret' = [kind |-> "return", value |-> r.config]
                   /\ user_file' = r.user_file
          ELSE /\ ret' = home
               /\ user_file' = user_file
    /\ pc' = "done"
    /\ UNCHANGED <<path, envVars, default_file, fsVars, listVars>>

SpecConfig == InitConfig /\ [][SetupTypeConfig]_vars

-----------------------------------------------------------------------------
(* C3                                                                      *)

\* C3: the configuration the bootstrap returns has every key of the default
\* configuration D, and every key of the user configuration U with U's own
\* description: a default never replaces a user rule.
C3_MergeKeepsUserAddsDefault ==
    [][(pc = "setup_type_config" /\ ret'.kind = "return") =>
         LET D == LoadedConfig(default_file)
             U == LoadedConfig(user_file)
             R == ret'.value
         IN  /\ \A k \in DOMAIN D : k \in DOMAIN R
             /\ \A k \in DOMAIN U : k \in DOMAIN R /\ R[k] = U[k]]_vars

\* the bootstrap returned a merged configuration in which a user rule stands
\* where the default has another description, next to a rule only the
\* default has
C3_Witness ==
    /\ pc = "done"
    /\ ret.kind = "return"
    /\ default_file.kind = "regular"
    /\ LET D == read_from(default_file.lines)
       IN  /\ \E k \in DOMAIN D : ret.value[k] # D[k]
           /\ \E k \in DOMAIN D : ret.value[k] = D[k]
           /\ user_file.kind = "regular"
           /\ SubSeq(user_file.lines, 1, 3) = HeaderLines

-----------------------------------------------------------------------------
(* C4                                                                      *)

RECURSIVE NonBlank(_)
NonBlank(lines) ==
    IF lines = <<>> THEN <<>>
    ELSE IF Head(lines).kind = "blank" THEN NonBlank(Tail(lines))
    ELSE <<Head(lines)>> \o NonBlank(Tail(lines))

\* C4: the bootstrap changes the user file only if it existed and the loaded
\* configurations differ (an absent file stays absent, a file equal to the
\* default stays untouched); a rewritten file holds the two header comment
\* lines followed by the serialized merged configuration.
C4_UserFileWrittenOnlyIfExistingAndDiffering ==
    [][pc = "setup_type_config" =>
         LET D == LoadedConfig(default_file)
             U == LoadedConfig(user_file)
         IN  /\ (user_file' # user_file) => (user_file.kind = "regular" /\ D # U)
             /\ (user_file.kind = "absent") => (user_file'.kind = "absent")
             /\ (D = U) => (user_file' = user_file)
             /\ (user_file' # user_file) =>
                  LET text == NonBlank(user_file'.lines)
                  IN  /\ user_file'.kind = "regular"
                      /\ Len(text) >= 2
                      /\ text[1] = HeaderLines[1]
                      /\ text[2] = HeaderLines[2]
                      /\ SubSeq(text, 3, Len(text)) = Serialize(ret'.value)]_vars

\* an existing user file that lacked a default rule has been rewritten
C4_Witness ==
    /\ pc = "done"
    /\ ret.kind = "return"
    /\ user_file.kind = "regular"
    /\ Len(user_file.lines) > 3
    /\ SubSeq(user_file.lines, 1, 3) = HeaderLines

-----------------------------------------------------------------------------
(* get_file_info on every bounded entry, next to a changing filesystem     *)

FileNames == {<<"m">>, <<"m", ".", "s">>, <<"a", ".", "s">>, <<".", "s">>, <<"a">>}
TypeKeys == {<<"m">>, <<".", "s">>, <<"m", ".", "s">>}
Sizes == {0, 2048}

TypeConfigs == UNION {[K -> Descs] : K \in SUBSET TypeKeys}

Dir == <<"/", "d">>

\* the i-th entry of a directory
ChildName(i) == IF i = 1 THEN <<"a">> ELSE IF i = 2 THEN <<"b">> ELSE <<"a", "b">>

ChildLists ==
    {[i \in DOMAIN ks |-> [name |-> ChildName(i), kind |-> ks[i]]] :
        ks \in SeqsUpTo(ChildKinds, MaxChildren)}

RegularEntries ==
    {[NoEntry EXCEPT !.ftype = "regular", !.perms = p, !.size = s, !.racc = TRUE] :
        p \in SUBSET PermBits, s \in Sizes}

DirectoryEntries ==
    {[NoEntry EXCEPT !.ftype = "directory", !.perms = {"owner_read", "owner_exec"},
                     !.children = c, !.racc = r, !.xacc = x] :
        c \in ChildLists, r \in BOOLEAN, x \in BOOLEAN}

SymlinkEntries ==
    {[NoEntry EXCEPT !.ftype = "symlink", !.target = <<"t">>, !.target_type = t,
                     !.racc = TRUE, !.xacc = TRUE] :
        t \in {"directory", "regular", "not_found"}}

OtherEntries ==
    {[NoEntry EXCEPT !.ftype = t] :
        t \in {"block", "character", "fifo", "socket", "unknown", "not_found", "error"}}

NoLocals == [type |-> "none", perms |-> {}, has_access |-> FALSE]

InitFileInfo ==
    /\ pc = "symlink_status"
    /\ ret = Running
    /\ cwd = RootDir
    /\ HOME = Unused
    /\ pw_dir = Unused
    /\ NoConfigFiles
    /\ NoListing
    /\ NoTree
    /\ local = NoLocals
    /\ env_steps = 0
    /\ \/ /\ entry \in RegularEntries
          /\ path \in {PathAppend(Dir, n) : n \in FileNames}
          /\ type_config \in TypeConfigs
       \/ /\ entry \in DirectoryEntries \cup SymlinkEntries \cup OtherEntries
          /\ path = PathAppend(Dir, <<"a">>)
          /\ type_config = EmptyConfig

NextFileInfo ==
    \/ SymlinkStatus
    \/ SymlinkLastWriteTime
    \/ ReadSymlink
    \/ HasAccess
    \/ DirectoryIterator
    \/ FileSize
    \/ EnvRemove
    \/ EnvCreate
    \/ EnvChmod

SpecFileInfo == InitFileInfo /\ [][NextFileInfo]_vars

\* the kind of a file_info: its type, the special files and the unrecognized
\* states taken together
Kind(info) ==
    CASE info.type = "symlink"   -> "Symlink"
      [] info.type = "directory" -> "Directory"
      [] info.type = "regular"   -> "Regular"
      [] OTHER                   -> "Special"

\* pat occurs in desc
Contains(desc, pat) ==
    \E i \in 1..(Len(desc) + 1) :
        /\ i + Len(pat) - 1 <= Len(desc)
        /\ SubSeq(desc, i, i + Len(pat) - 1) = pat

ErrorFlag == <<"[ERROR", "STATE]">>
Returned == pc = "done" /\ ret.kind = "return"

-----------------------------------------------------------------------------
(* C5                                                                      *)

\* C5: a regular file's description is the rule for its exact filename if
\* there is one, else the rule for its extension, each followed by
\* "(Executable)" iff an execute bit of owner, group or others is set; with
\* no rule it is "Executable" if such a bit is set and "Unknown Regular
\* File" otherwise.
C5_RegularDescription ==
    (Returned /\ Kind(ret.value) = "Regular") =>
        LET name == ret.value.name
            ext  == Extension(name)
            exec == \E b \in {"owner_exec", "group_exec", "others_exec"} :
                        b \in ret.value.perms
            suffix == IF exec THEN <<"(Executable)">> ELSE <<>>
        IN  ret.value.type_desc =
                IF name \in DOMAIN type_config THEN type_config[name] \o suffix
                ELSE IF ext \in DOMAIN type_config THEN type_config[ext] \o suffix
                ELSE IF exec THEN <<"Executable">>
                ELSE <<"Unknown", "Regular", "File">>

\* an executable file whose name and whose extension both have a rule, of
\* different descriptions, was described by the filename rule
C5_Witness ==
    /\ Returned
    /\ Kind(ret.value) = "Regular"
    /\ ret.value.name = <<"m", ".", "s">>
    /\ ret.value.perms = {"group_exec"}
    /\ <<"m", ".", "s">> \in DOMAIN type_config
    /\ <<".", "s">> \in DOMAIN type_config
    /\ type_config[<<"m", ".", "s">>] # type_config[<<".", "s">>]
    /\ ret.value.type_desc = type_config[<<"m", ".", "s">>] \o <<"(Executable)">>

-----------------------------------------------------------------------------
(* C6                                                                      *)

\* C6: a path whose status is an error, unknown or not found is classified
\* as Special with a description flagged "[ERROR STATE]" ("Not Found [ERROR
\* STATE]" for a path that does not exist), and the block device, character
\* device, named pipe and named socket get their fixed, unflagged descriptions.
C6_UnrecognizedStatesAreFlagged ==
    (pc = "done" /\ env_steps = 0) =>
        /\ entry.ftype \in {"error", "unknown", "not_found"} =>
              /\ ret.kind = "return"
              /\ Kind(ret.value) = "Special"
              /\ Contains(ret.value.type_desc, ErrorFlag)
              /\ entry.ftype = "not_found" =>
                    ret.value.type_desc = <<"Not", "Found", "[ERROR", "STATE]">>
        /\ entry.ftype \in {"block", "character", "fifo", "socket"} =>
              /\ ret.kind = "return"
              /\ Kind(ret.value) = "Special"
              /\ ~Contains(ret.value.type_desc, ErrorFlag)
              /\ ret.value.type_desc =
                    CASE entry.ftype = "block"     -> <<"Block", "Device">>
                      [] entry.ftype = "character" -> <<"Character", "Device">>
                      [] entry.ftype = "fifo"      -> <<"Named", "IPC", "Pipe">>
                      [] entry.ftype = "socket"    -> <<"Named", "IPC", "Socket">>

\* what remains of C6: every Special file_info that is returned is flagged
\* iff its type is none of the four special file types
C6_ReturnedSpecialFlaggedIffUnrecognized ==
    (Returned /\ Kind(ret.value) = "Special") =>
        (Contains(ret.value.type_desc, ErrorFlag)
            <=> ret.value.type \notin {"block", "character", "fifo", "socket"})

-----------------------------------------------------------------------------
(* C7                                                                      *)

\* C7: a returned file_info carries the payload of its kind and no other:
\* the target for a Symlink, (has_access, subdirsc, filesc) for a Directory,
\* the size for a Regular, nothing for a Special; and a symlink, whatever it
\* points at, is a Symlink.
C7_PayloadMatchesKind ==
    Returned =>
        /\ ret.value.extra_info.tag =
              CASE Kind(ret.value) = "Symlink"   -> "symlink_info"
                [] Kind(ret.value) = "Directory" -> "dir_info"
                [] Kind(ret.value) = "Regular"   -> "regular_file_info"
                [] Kind(ret.value) = "Special"   -> "none"
        /\ DOMAIN ret.value.extra_info =
              CASE Kind(ret.value) = "Symlink"   -> {"tag", "target"}
                [] Kind(ret.value) = "Directory" ->
                     {"tag", "has_access", "subdirsc", "filesc"}
                [] Kind(ret.value) = "Regular"   -> {"tag", "size"}
                [] Kind(ret.value) = "Special"   -> {"tag"}
        /\ entry.ftype = "symlink" => Kind(ret.value) = "Symlink"

\* a symlink to a directory was classified as a Symlink carrying its target
C7_Witness ==
    /\ Returned
    /\ entry.ftype = "symlink"
    /\ entry.target_type = "directory"
    /\ Kind(ret.value) = "Symlink"
    /\ ret.value.extra_info = [tag |-> "symlink_info", target |-> <<"t">>]

-----------------------------------------------------------------------------
(* C8                                                                      *)

\* C8: classifying a directory that cannot be read raises no error: it
\* returns a Directory with has_access false and both counts zero, also when
\* the permission is lost between the access check and the enumeration.
C8_UnreadableDirectoryIsNoError ==
    (pc = "done" /\ local.type = "directory" /\ entry.ftype = "directory"
        /\ ~entry.racc) =>
        /\ ret.kind = "return"
        /\ Kind(ret.value) = "Directory"
        /\ ret.value.extra_info =
              [tag |-> "dir_info", has_access |-> FALSE, subdirsc |-> 0, filesc |-> 0]

\* the same statement for a filesystem that nobody changes meanwhile
C8_UnreadableDirectoryUnchanged ==
    (pc = "done" /\ env_steps = 0 /\ entry.ftype = "directory"
        /\ ~(entry.racc /\ entry.xacc)) =>
        /\ ret.kind = "return"
        /\ Kind(ret.value) = "Directory"
        /\ ret.value.extra_info =
              [tag |-> "dir_info", has_access |-> FALSE, subdirsc |-> 0, filesc |-> 0]

-----------------------------------------------------------------------------
(* C10                                                                     *)

\* C10: for an enumerated directory subdirsc + filesc is the number of its
\* entries, and an entry counts as a subdirectory only if it is itself a
\* directory: a symlink to a directory is not followed.
C10_ChildrenCountedByApparentType ==
    (Returned /\ Kind(ret.value) = "Directory" /\ ret.value.extra_info.has_access) =>
        /\ ret.value.extra_info.subdirsc + ret.value.extra_info.filesc
              = Len(entry.children)
        /\ ret.value.extra_info.subdirsc
              = Cardinality({i \in DOMAIN entry.children :
                                entry.children[i].kind = "dir"})

\* what remains of C10: every entry is counted once, a symlink as what it
\* leads to
C10_ChildrenCountedOnce ==
    (Returned /\ Kind(ret.value) = "Directory" /\ ret.value.extra_info.has_access) =>
        /\ ret.value.extra_info.subdirsc + ret.value.extra_info.filesc
              = Len(entry.children)
        /\ ret.value.extra_info.subdirsc
              = Cardinality({i \in DOMAIN entry.children :
                                entry.children[i].kind \in {"dir", "link_to_dir"}})

-----------------------------------------------------------------------------
(* get_dir_contents on every bounded directory                             *)

ListNames == {<<"a">>, <<"b">>, <<".", "h">>, <<"-", "a">>, <<"!", "x">>}

\* the orders in which a directory may yield up to MaxListed of the names
Arrangements ==
    {s \in SeqsUpTo(ListNames, MaxListed) :
        \A i, j \in DOMAIN s : i # j => s[i] # s[j]}

ListedDirectories ==
    {[NoEntry EXCEPT !.ftype = "directory", !.perms = {"owner_read", "owner_exec"},
                     !.children = [i \in DOMAIN s |-> [name |-> s[i], kind |-> "file"]],
                     !.racc = r, !.xacc = r] :
        s \in Arrangements, r \in BOOLEAN}

NotDirectories ==
    {NoEntry,
     [NoEntry EXCEPT !.ftype = "regular", !.racc = TRUE],
     [NoEntry EXCEPT !.ftype = "symlink", !.target = <<"t">>, !.target_type = "regular"],
     [NoEntry EXCEPT !.ftype = "error"]}

\* the caller passes a resolved path: the root or a directory below it
ListPaths == {resolve(p, RootDir) : p \in {<<"/">>, <<"/", "d">>, <<"/", "d", "/", ".">>,
                                             <<"/", "d", "/", ".", ".">>}}

InitList ==
    /\ pc = "get_dir_contents"
    /\ ret = Running
    /\ path \in ListPaths
    /\ cwd = RootDir
    /\ HOME = Unused
    /\ pw_dir = Unused
    /\ NoTree
    /\ NoConfigFiles
    /\ entry \in ListedDirectories \cup NotDirectories
    /\ type_config = Unused
    /\ local = Unused
    /\ env_steps = 0
    /\ show_hidden_files \in BOOLEAN
    /\ include_current_dir \in BOOLEAN

GetDirContents ==
    /\ pc = "get_dir_contents"
    /\ ret' = get_dir_contents(path, entry, show_hidden_files, include_current_dir, cwd)
    /\ pc' = "done"
    /\ UNCHANGED <<path, envVars, cfgVars, fsVars, listVars>>

SpecList == InitList /\ [][GetDirContents]_vars

-----------------------------------------------------------------------------
(* C9                                                                      *)

\* C9: the listing of a directory is "." iff include_current_dir, then ".."
\* iff the directory is not the root, then exactly the names that do not
\* begin with "." (all names when show_hidden_files), in ascending ordinal
\* order; the sentinels come before every name, also before names that sort
\* before "."; what is no directory lists as the empty sequence.
C9_ListingOrder ==
    (pc = "done" /\ ret.kind = "return") =>
        IF entry.ftype # "directory" THEN ret.value = <<>>
        ELSE LET names  == {entry.children[i].name : i \in DOMAIN entry.children}
                 shown  == {n \in names : show_hidden_files \/ Head(n) # "."}
                 prefix == (IF include_current_dir THEN <<Dot>> ELSE <<>>)
                           \o (IF path # RootDir THEN <<DotDot>> ELSE <<>>)
                 v      == ret.value
                 k      == Len(prefix)
             IN  /\ Len(v) = k + Cardinality(shown)
                 /\ SubSeq(v, 1, k) = prefix
                 /\ {v[i] : i \in (k + 1)..Len(v)} = shown
                 /\ \A i, j \in (k + 1)..Len(v) : i < j => StrLess(v[i], v[j])

\* a directory below the root that yields "b", ".h", "-a" lists as ".",
\* "..", "-a", "b": the hidden name is left out and the sentinels stay in
\* front of a name that sorts before them
C9_Witness ==
    /\ pc = "done"
    /\ ret.kind = "return"
    /\ path = <<"/", "d">>
    /\ ~show_hidden_files
    /\ include_current_dir
    /\ [i \in DOMAIN entry.children |-> entry.children[i].name]
          = << <<"b">>, <<".", "h">>, <<"-", "a">> >>
    /\ ret.value = << Dot, DotDot, <<"-", "a">>, <<"b">> >>

-----------------------------------------------------------------------------
(* The filesystem seen from main: a tree of entries, path by path          *)

Home == <<"/", "h">>
NodeA == <<"/", "h", "/", "a">>
NodeB == <<"/", "h", "/", ".", "b">>
Nodes == {RootDir, Home, NodeA, NodeB}

RECURSIVE Walk(_, _)
\* path resolution by the kernel: "." stays, ".." goes up and stays at the root
Walk(names, cs) ==
    IF cs = <<>> THEN names
    ELSE IF Head(cs) = Dot THEN Walk(names, Tail(cs))
    ELSE IF Head(cs) = DotDot
         THEN Walk(IF names = <<>> THEN names
                   ELSE SubSeq(names, 1, Len(names) - 1), Tail(cs))
         ELSE Walk(Append(names, Head(cs)), Tail(cs))

\* the node an absolute path names; the empty path names nothing
Namei(p) ==
    IF ~IsAbsolute(p) THEN EmptyPath
    ELSE PathJoin(RootDir, Walk(<<>>, Tail(Components(p))))

\* the directories the kernel searches on the way to the last component
Traversed(p) ==
    LET cs == Components(p)
    IN  {Namei(PathJoin(EmptyPath, SubSeq(cs, 1, k))) : k \in 1..(Len(cs) - 1)}

\* what readdir and fs::is_directory make of an entry
ChildKind(e) ==
    CASE e.ftype = "directory" -> "dir"
      [] e.ftype = "symlink" /\ e.target_type = "directory" -> "link_to_dir"
      [] e.ftype = "symlink" /\ e.target_type = "regular" -> "link_to_file"
      [] e.ftype = "symlink" -> "link_dangling"
      [] OTHER -> "file"

\* the entries named ns of the directory d
ChildrenNamed(d, ns, fsys) ==
    [i \in DOMAIN ns |->
        [name |-> ns[i], kind |-> ChildKind(fsys[PathAppend(d, ns[i])])]]

\* the entries of the directory d, in the order the directory yields them
ChildrenOf(d, fsys) ==
    ChildrenNamed(d,
                  SortedKeys({Filename(n) : n \in {m \in DOMAIN fsys :
                                 ParentPath(m) = d /\ LstatOk(fsys[m])}}),
                  fsys)

\* the entry at the node q, reached through the directories dirs
EntryOf(q, dirs, fsys) ==
    IF q \notin DOMAIN fsys THEN NoEntry
    ELSE IF \E d \in dirs : d \notin DOMAIN fsys \/ fsys[d].ftype # "directory"
         THEN NoEntry
    ELSE IF \E d \in dirs : ~fsys[d].xacc
         THEN [NoEntry EXCEPT !.ftype = "error"]
    ELSE [fsys[q] EXCEPT !.children = ChildrenOf(q, fsys)]

\* what lstat(2) of p finds: nothing, an error when a directory on the way
\* may not be searched, or the entry with what it holds
EntryAt(p, fsys) == EntryOf(Namei(p), Traversed(p), fsys)

-----------------------------------------------------------------------------
(* cliex::get_file_info as main calls it: one call, during which the       *)
(* filesystem does not change                                              *)

\* the calls of get_file_info on the entry e at p, with the entry re that
\* has_access finds at the resolved path
get_file_info_of(p, e, resolved_path, re, base, types) ==
    IF symlink_status(e).ftype = "error" THEN Throw
    ELSE IF ~LstatOk(e) THEN Exit
    ELSE CASE symlink_status(e).ftype = "symlink" ->
                Return(file_info(Filename(p), <<"Symlink">>, e.ftype, e.perms,
                                 [tag |-> "symlink_info", target |-> e.target]))
           [] symlink_status(e).ftype = "directory" ->
                IF has_access_terminates(resolved_path, base, re) THEN Terminate
                ELSE IF ~has_access(resolved_path, base, re)
                     THEN Return(file_info(Filename(p), <<"Directory">>, e.ftype,
                                           e.perms,
                                           [tag |-> "dir_info", has_access |-> FALSE,
                                            subdirsc |-> 0, filesc |-> 0]))
                ELSE IF CanOpenDir(e) /\ (e.children = <<>> \/ CanStatChildren(e))
                     THEN Return(file_info(Filename(p), <<"Directory">>, e.ftype,
                                           e.perms,
                                           [tag |-> "dir_info", has_access |-> TRUE,
                                            subdirsc |-> subdirsc(e.children),
                                            filesc |-> filesc(e.children)]))
                ELSE Throw
           [] symlink_status(e).ftype = "regular" ->
                Return(file_info(Filename(p), regular_type_desc(p, e.perms, types),
                                 e.ftype, e.perms,
                                 [tag |-> "regular_file_info", size |-> e.size]))
           [] OTHER ->
                Return(file_info(Filename(p), special_type_desc(e.ftype),
                                 e.ftype, e.perms, NoExtra))

get_file_info_resolved(p, resolved_path, base, fsys, types) ==
    get_file_info_of(p, EntryAt(p, fsys), resolved_path, EntryAt(resolved_path, fsys),
                     base, types)

get_file_info(p, base, fsys, types) ==
    get_file_info_resolved(p, resolve(p, base), base, fsys, types)

-----------------------------------------------------------------------------
(* main: the interactive loop                                              *)

\* the listing with a separator behind the names of directories; an entry
\* that cannot be examined ends it with an exception
with_separators(listing, e) ==
    IF listing.kind = "throw" THEN listing
    ELSE IF e.children # <<>> /\ ~CanStatChildren(e) THEN [kind |-> "throw"]
    ELSE [kind |-> "return",
          value |-> [i \in DOMAIN listing.value |->
                        IF \E c \in DOMAIN e.children :
                               /\ e.children[c].name = listing.value[i]
                               /\ ChildIsDirectory(e.children[c])
                        THEN listing.value[i] \o <<Sep>>
                        ELSE listing.value[i]]]

\* cliex::get_dir_content is not among the sources.  It is modelled as the
\* specification's listing, in which the names of directories end in a
\* separator, as the loop's handling of the selected name expects.
get_dir_content(dir, e, show_hidden, include_current, base) ==
    with_separators(get_dir_contents(dir, e, show_hidden, include_current, base), e)

\* a default-constructed file_info
NoInfo == file_info(<<>>, <<>>, "none", {}, NoExtra)

\* the locals of main before the first change_dir
MainLocals ==
    [choices |-> <<>>, current_item |-> 0, selected_file_info |-> NoInfo,
     current_dir |-> EmptyPath, key |-> "none"]

\* get_selected(): choices[item_index(current_item(explorer_menu))]
get_selected(l) == l.choices[l.current_item]

\* the menu add_file_menu builds: its first item is current, if it has one
FirstItem(choices) == IF choices = <<>> THEN 0 ELSE 1

\* the body of change_dir past its guard: choices and the menu are rebuilt
\* from the listing, then current_dir and the working directory follow; an
\* exception from the listing leaves choices cleared
rebuild(l, newdir, e, listing, base) ==
    IF listing.kind = "throw"
    THEN [local |-> [l EXCEPT !.choices = <<>>, !.current_item = 0],
          ret |-> Throw, cwd |-> base]
    ELSE [local |-> [l EXCEPT !.choices = Sort(listing.value),
                              !.current_item = FirstItem(listing.value),
                              !.current_dir = newdir],
          ret |-> Running,
          cwd |-> IF e.xacc THEN newdir ELSE base]

\* mutant of change_dir: the type and access of the selected entry are not
\* looked at
change_dir_unguarded(l, newdir, e, show_hidden, include_current, base) ==
    IF e.ftype = "error" THEN [local |-> l, ret |-> Throw, cwd |-> base]
    ELSE IF FollowedType(e) # "directory"
         THEN [local |-> l, ret |-> Running, cwd |-> base]
    ELSE rebuild(l, newdir, e,
                 get_dir_content(newdir, e, show_hidden, include_current, base), base)

\* the lambda change_dir, e being what newdir names: the locals of main it
\* leaves, whether an exception left it, and the working directory after
\* chdir
change_dir(l, newdir, e, show_hidden, include_current, base) ==
    IF e.ftype = "error" THEN [local |-> l, ret |-> Throw, cwd |-> base]
    ELSE IF \/ FollowedType(e) # "directory"
            \/ l.selected_file_info.type # "directory"
            \/ ~l.selected_file_info.extra_info.has_access
         THEN [local |-> l, ret |-> Running, cwd |-> base]
    ELSE rebuild(l, newdir, e,
                 get_dir_content(newdir, e, show_hidden, include_current, base), base)

\* the program goes on after a step unless the step ended it
Continue(r, next) == IF r = Running THEN next ELSE "done"

\* a step that ends the program with the outcome o
Ended(o) == ret' = o /\ pc' = "done" /\ local' = local /\ cwd' = cwd

\* a step that ends with a call of change_dir, whose result is r
Changed(r) ==
    /\ local' = r.local
    /\ cwd' = r.cwd
    /\ ret' = r.ret
    /\ pc' = Continue(r.ret, "show_file_info")

\* selected_file_info = get_file_info(home_dir, type_config);
\* change_dir(home_dir)
StartIn(home_dir, info) ==
    IF info.kind # "return" THEN Ended(info)
    ELSE Changed(change_dir([local EXCEPT !.selected_file_info = info.value],
                            home_dir, EntryAt(home_dir, files), show_hidden_files,
                            include_current_dir, cwd))

\* main up to the loop: get_home_dir, get_file_info of the home directory,
\* change_dir to it
MainStart ==
    /\ pc = "main"
    /\ \E home \in get_home_dir(HOME, pw_dir, cwd) :
          IF home.kind # "return" THEN Ended(home)
          ELSE StartIn(home.value, get_file_info(home.value, cwd, files, type_config))
    /\ UNCHANGED <<path, HOME, pw_dir, files, cfgVars, entry, type_config, env_steps,
                   listVars>>

\* the path the loop classifies: a name that ends in a separator gives a
\* path whose filename is "."
tmp(joined) == IF Filename(joined) = Dot THEN ParentPath(joined) ELSE joined

\* selected_file_info = get_file_info(tmp, type_config)
Selected(info) ==
    IF info.kind # "return" THEN Ended(info)
    ELSE /\ local' = [local EXCEPT !.selected_file_info = info.value]
         /\ pc' = "getch"
         /\ UNCHANGED <<ret, cwd>>

\* the head of the loop: get_file_info of the selected entry.  With no item
\* to select, get_selected reads choices[-1]
ShowFileInfo ==
    /\ pc = "show_file_info"
    /\ IF local.current_item = 0
       THEN \E k \in CrashOutcomes : Ended([kind |-> k])
       ELSE Selected(get_file_info(tmp(PathAppend(local.current_dir, get_selected(local))),
                                   cwd, files, type_config))
    /\ UNCHANGED <<path, HOME, pw_dir, files, cfgVars, entry, type_config, env_steps,
                   listVars>>

\* menu_driver(explorer_menu, request): the items that may be current after
\* the request; where the columns and pages lie is the menu's matter
menu_driver(n, item, request) ==
    CASE request = "REQ_DOWN_ITEM" -> {IF item < n THEN item + 1 ELSE item}
      [] request = "REQ_UP_ITEM"   -> {IF item > 1 THEN item - 1 ELSE item}
      [] OTHER                     -> 1..n

\* a key that is handed to the menu
MenuKey(k, request) ==
    /\ \E i \in menu_driver(Len(local.choices), local.current_item, request) :
          local' = [local EXCEPT !.current_item = i, !.key = k]
    /\ pc' = "show_file_info"
    /\ UNCHANGED <<ret, path, envVars, cfgVars, entry, type_config, env_steps, listVars>>

\* case KEY_DOWN
KeyDown ==
    /\ pc = "getch"
    /\ MenuKey("KEY_DOWN", "REQ_DOWN_ITEM")

\* case KEY_UP
KeyUp ==
    /\ pc = "getch"
    /\ MenuKey("KEY_UP", "REQ_UP_ITEM")

\* case KEY_RIGHT
KeyRight ==
    /\ pc = "getch"
    /\ MenuKey("KEY_RIGHT", "REQ_RIGHT_ITEM")

\* case KEY_LEFT
KeyLeft ==
    /\ pc = "getch"
    /\ MenuKey("KEY_LEFT", "REQ_LEFT_ITEM")

\* case KEY_NPAGE
KeyNPage ==
    /\ pc = "getch"
    /\ MenuKey("KEY_NPAGE", "REQ_SCR_DPAGE")

\* case KEY_PPAGE
KeyPPage ==
    /\ pc = "getch"
    /\ MenuKey("KEY_PPAGE", "REQ_SCR_UPAGE")

\* case 'q'
KeyQuit ==
    /\ pc = "getch"
    /\ local' = [local EXCEPT !.key = "q"]
    /\ ret' = [kind |-> "return", value |-> 0]
    /\ pc' = "done"
    /\ UNCHANGED <<path, envVars, cfgVars, entry, type_config, env_steps, listVars>>

\* a key the switch has no case for
KeyOther ==
    /\ pc = "getch"
    /\ local' = [local EXCEPT !.key = "other"]
    /\ pc' = "show_file_info"
    /\ UNCHANGED <<ret, path, envVars, cfgVars, entry, type_config, env_steps, listVars>>

\* a key whose case calls change_dir(newdir)
ChangeDirKey(k, newdir) ==
    Changed(change_dir([local EXCEPT !.key = k], newdir, EntryAt(newdir, files),
                       show_hidden_files, include_current_dir, cwd))

\* case '\n'
KeyEnter ==
    /\ pc = "getch"
    /\ LET selected == get_selected(local)
       IN  IF selected = DotDot
           THEN ChangeDirKey("newline", ParentPath(local.current_dir))
           ELSE IF selected[Len(selected)] = Sep
                THEN ChangeDirKey("newline",
                                  PathAppend(local.current_dir,
                                             SubSeq(selected, 1, Len(selected) - 1)))
                ELSE /\ local' = [local EXCEPT !.key = "newline"]
                     /\ pc' = "show_file_info"
                     /\ UNCHANGED <<ret, cwd>>
    /\ UNCHANGED <<path, HOME, pw_dir, files, cfgVars, entry, type_config, env_steps,
                   listVars>>

\* case KEY_BACKSPACE
KeyBackspace ==
    /\ pc = "getch"
    /\ ChangeDirKey("KEY_BACKSPACE", ParentPath(local.current_dir))
    /\ UNCHANGED <<path, HOME, pw_dir, files, cfgVars, entry, type_config, env_steps,
                   listVars>>

\* chmod(2) of a directory by another process while the browser runs: one
\* of read and search permission is given or taken
TreeChmod ==
    /\ pc \in {"show_file_info", "getch"}
    /\ env_steps < MaxEnvSteps
    /\ \E n \in DOMAIN files :
          /\ files[n].ftype = "directory"
          /\ \/ files' = [files EXCEPT ![n].racc = ~files[n].racc]
             \/ files' = [files EXCEPT ![n].xacc = ~files[n].xacc]
    /\ env_steps' = env_steps + 1
    /\ UNCHANGED <<pc, ret, path, cwd, HOME, pw_dir, cfgVars, entry, type_config, local,
                   listVars>>

\* the selectable entries of the tree
DirectoryEntry(r, x) ==
    [NoEntry EXCEPT !.ftype = "directory", !.perms = {"owner_read", "owner_exec"},
                    !.racc = r, !.xacc = x]
RegularEntry == [NoEntry EXCEPT !.ftype = "regular", !.perms = {"owner_read"},
                                !.racc = TRUE]
SymlinkEntry(t) ==
    [NoEntry EXCEPT !.ftype = "symlink", !.target = <<"t">>, !.target_type = t,
                    !.racc = TRUE, !.xacc = TRUE]
SelectableEntries ==
    {NoEntry, RegularEntry, SymlinkEntry("directory"), [NoEntry EXCEPT !.ftype = "fifo"],
     DirectoryEntry(TRUE, TRUE), DirectoryEntry(FALSE, TRUE)}

\* another process replaces an entry of the home directory by another one
TreeReplace ==
    /\ pc \in {"show_file_info", "getch"}
    /\ env_steps < MaxEnvSteps
    /\ \E e \in SelectableEntries :
          /\ e # files[NodeA]
          /\ files' = [files EXCEPT ![NodeA] = e]
    /\ env_steps' = env_steps + 1
    /\ UNCHANGED <<pc, ret, path, cwd, HOME, pw_dir, cfgVars, entry, type_config, local,
                   listVars>>

Trees ==
    {[n \in Nodes |-> CASE n = RootDir -> DirectoryEntry(TRUE, TRUE)
                        [] n = Home    -> DirectoryEntry(r, TRUE)
                        [] n = NodeA   -> a
                        [] OTHER       -> RegularEntry] :
        r \in BOOLEAN, a \in SelectableEntries}

InitMain ==
    /\ pc = "main"
    /\ ret = Running
    /\ path = Unused
    /\ cwd = RootDir
    /\ HOME \in {Null, Home, NodeA}
    /\ pw_dir = Home
    /\ files \in Trees
    /\ NoConfigFiles
    /\ entry = Unused
    /\ type_config = EmptyConfig
    /\ local = MainLocals
    /\ env_steps = 0
    /\ show_hidden_files \in BOOLEAN
    /\ include_current_dir \in BOOLEAN

NextMain ==
    \/ MainStart
    \/ ShowFileInfo
    \/ KeyDown
    \/ KeyUp
    \/ KeyRight
    \/ KeyLeft
    \/ KeyNPage
    \/ KeyPPage
    \/ KeyQuit
    \/ KeyEnter
    \/ KeyBackspace
    \/ KeyOther
    \/ TreeChmod
    \/ TreeReplace

SpecMain == InitMain /\ [][NextMain]_vars

-----------------------------------------------------------------------------
(* C11                                                                     *)

\* the selected entry, as last classified, is a directory that may be entered
Enterable(info) == Kind(info) = "Directory" /\ info.extra_info.has_access

\* the step leaves the current directory and the listing as they are
Stays == local'.current_dir = local.current_dir /\ local'.choices = local.choices

\* C11: current_dir and the listing change only through change_dir, which
\* takes effect only if its target is a directory and the file_info last
\* computed for the selected entry is a Directory with has_access; so
\* Backspace and Enter on ".." change nothing when the selected entry is a
\* regular file, a symlink, a special file or an unreadable directory, and
\* no other key changes them.
C11_OnlyGuardedChangeDirMoves ==
    [][LET info == local'.selected_file_info
       IN  /\ ~Stays =>
                /\ \/ pc = "main"
                   \/ pc = "getch" /\ local'.key \in {"newline", "KEY_BACKSPACE"}
                /\ Enterable(info)
                /\ local'.current_dir # local.current_dir =>
                      FollowedType(EntryAt(local'.current_dir, files)) = "directory"
           /\ (/\ pc = "getch"
               /\ \/ local'.key = "KEY_BACKSPACE"
                  \/ local'.key = "newline" /\ get_selected(local) = DotDot
               /\ \/ Kind(info) \in {"Regular", "Symlink", "Special"}
                  \/ Kind(info) = "Directory" /\ ~info.extra_info.has_access)
              => Stays
           /\ (pc = "getch" /\ local'.key \notin {"newline", "KEY_BACKSPACE"})
              => Stays]_vars

\* Backspace was pressed in the home directory with a regular file selected,
\* and the browser is still in the home directory with its listing
C11_Witness ==
    /\ pc = "show_file_info"
    /\ local.key = "KEY_BACKSPACE"
    /\ Kind(local.selected_file_info) = "Regular"
    /\ local.current_dir = Home
    /\ local.choices # <<>>
    /\ get_selected(local) = local.selected_file_info.name

=============================================================================
